---- MODULE Spec2Model ----
(***************************************************************************)
(* 2048 mini app: the game engine of utils/GameLogic.js, the reducer of    *)
(* contexts/GameContext.js and the HomeScreen component (the variant with  *)
(* the AppState listener and the hasWon flag).                             *)
(*                                                                         *)
(* A board is a sequence of 4 rows of 4 cells.  JavaScript indexes rows    *)
(* and columns 0..3, the sequences here are indexed 1..4; the row and col  *)
(* fields of a tile keep the JavaScript (0-based) numbers.                 *)
(***************************************************************************)
EXTENDS Integers, Sequences, FiniteSets, TLC

VARIABLES
    \* --- one call of a GameLogic function ---------------------------------
    argBoard,       \* the board handed to the function
    argDirection,   \* the direction handed to move
    call,           \* which function was called ("none" before the call)
    ret,            \* what the call produced
    \* --- the Home screen ---------------------------------------------------
    state,          \* the reducer state of GameContext (useReducer)
    moveCount,      \* useState(0) of HomeScreen
    animationPhase, \* useState('idle') of HomeScreen
    rendered,       \* the state, animationPhase and moveCount the callbacks of
                    \* the last render closed over
    animation,      \* the running Animated.parallel of an accepted move with
                    \* what its completion callback closed over
    handled,        \* how the last handleMove call ended
    \* --- start-up ----------------------------------------------------------
    stored,         \* what AsyncStorage holds under '2048_info' when the app starts
    boot,           \* where initializeApp stands
    disk,           \* what a read of '2048_info' yields now
    setDataCalls,   \* the calls of StorageUtils.setData, in the order made
    \* --- the animation of one merge ----------------------------------------
    mergeAnim,      \* the merge group and how far its two animations have run
    \* --- the slide of one accepted move (app/(tabs)/index.js) ---------------
    slide,          \* the resolved board, the progress, the timer, the spawns
    \* --- background and foreground -----------------------------------------
    appState,       \* AppState.currentState
    savedStateRef,  \* savedStateRef.current
    alert           \* the Alert on screen

logicVars == <<argBoard, argDirection, call, ret>>
homeVars  == <<state, moveCount, animationPhase, rendered, animation, handled>>
bootVars  == <<stored, boot, disk, setDataCalls>>
vars      == <<argBoard, argDirection, call, ret,
               state, moveCount, animationPhase, rendered, animation, handled,
               stored, boot, disk, setDataCalls,
               mergeAnim, slide, appState, savedStateRef, alert>>

\* what a call of a GameLogic function leaves alone, and what an event of the
\* Home screen leaves alone
appVars      == <<appState, savedStateRef, alert>>
otherVars    == <<mergeAnim, slide, appVars>>
outsideLogic == <<homeVars, bootVars, otherVars>>
outsideHome  == <<logicVars, bootVars, otherVars>>

-----------------------------------------------------------------------------
(* Bounds of the model *)

\* tiles of the input lines carry the values 2^1 .. 2^MaxExp
MaxExp == 2
\* nanoid() draws from MaxId different identifiers
MaxId == 2
\* on the Home screen a spawn picks among the first MaxPick + 1 empty cells
MaxPick == 1
\* the scores and statistics of a record found in storage at start-up
MaxStoredScore == 4
\* games are ended until the identifier MaxGames has been given out
MaxGames == 52
\* the number of StorageUtils.setData calls of a run
MaxCalls == 3
\* an animation is observed at the progress values 0, 1/Frames, ..., 1
Frames == 20

(* Program constants *)
N == 4
WinValue == 2048
HistoryCap == 50
GridSpacing == 10
BoardSize == 320
SpawnLow == 2
SpawnHigh == 4

-----------------------------------------------------------------------------
(* Cells, tiles, boards *)

Idx == 1..N
Directions == {"left", "right", "up", "down"}

\* null
Null == [value |-> 0, row |-> -1, col |-> -1, tileId |-> 0]

\* the tile object { value, row, col, tileId }
Tile(v, r, c, id) == [value |-> v, row |-> r, col |-> c, tileId |-> id]

\* what a JavaScript function returns when it executes `return false`
JSFalse == <<>>

RECURSIVE Pow2(_)
Pow2(k) == IF k = 0 THEN 1 ELSE 2 * Pow2(k - 1)

Reverse(s) == [i \in 1..Len(s) |-> s[Len(s) + 1 - i]]

\* the cell values of a board (0 for an empty cell)
ValuesOf(board) == [r \in Idx |-> [c \in Idx |-> board[r][c].value]]

createEmptyBoard == [r \in Idx |-> [c \in Idx |-> Null]]

\* { row, col } of every empty cell, in row-major order
RECURSIVE emptyFrom(_, _)
emptyFrom(board, k) ==
    IF k >= N * N THEN <<>>
    ELSE LET r == k \div N
             c == k % N
         IN  (IF board[r + 1][c + 1] = Null THEN <<[row |-> r, col |-> c]>> ELSE <<>>)
             \o emptyFrom(board, k + 1)

\* every cell reported as empty, occupied or not
getAllPositions(board) ==
    [k \in 1..(N * N) |-> [row |-> (k - 1) \div N, col |-> (k - 1) % N]]

getEmptyPositions(board) == emptyFrom(board, 0)

\* the new tile written with its row and col fields exchanged
addRandomTileSwapped(board, pick, value, id) ==
    LET emptyPositions == getEmptyPositions(board)
    IN  IF Len(emptyPositions) = 0 THEN board
        ELSE LET randomPos == emptyPositions[pick + 1]
             IN  [board EXCEPT ![randomPos.row + 1][randomPos.col + 1] =
                     Tile(value, randomPos.col, randomPos.row, id)]

\* addRandomTile with its three random draws made explicit: pick is the index
\* Math.floor(Math.random() * length), value the 2-or-4 draw, id the nanoid()
addRandomTile(board, pick, value, id) ==
    LET emptyPositions == getEmptyPositions(board)
    IN  IF Len(emptyPositions) = 0 THEN board
        ELSE LET randomPos == emptyPositions[pick + 1]
             IN  [board EXCEPT ![randomPos.row + 1][randomPos.col + 1] =
                     Tile(value, randomPos.row, randomPos.col, id)]

\* the draws addRandomTile can make on a board
Picks(board) ==
    LET n == Len(getEmptyPositions(board))
    IN  IF n = 0 THEN {0} ELSE 0..(n - 1)
SpawnValues == {SpawnLow, SpawnHigh}
NanoIds == 1..MaxId

-----------------------------------------------------------------------------
(* moveRowLeft *)

NotNull(tile) == tile # Null

\* the loop with the consumed tile spliced out and no skip: the merged tile is
\* compared again with its next neighbour
RECURSIVE mergeLoopChain(_, _, _)
mergeLoopChain(filtered, i, score) ==
    IF i >= Len(filtered) - 1 THEN [row |-> filtered, score |-> score]
    ELSE IF filtered[i + 1].value = filtered[i + 2].value
         THEN LET merged == [filtered[i + 1] EXCEPT !.value = filtered[i + 1].value * 2]
                  rest   == SubSeq(filtered, i + 3, Len(filtered))
              IN  mergeLoopChain(SubSeq(filtered, 1, i) \o <<merged>> \o rest,
                                 i, score + merged.value)
         ELSE mergeLoopChain(filtered, i + 1, score)

\* the for loop of step 2; i is the JavaScript index, filtered[i] is
\* filtered[i + 1] here
RECURSIVE mergeLoop(_, _, _)
mergeLoop(filtered, i, score) ==
    IF i >= Len(filtered) - 1 THEN [row |-> filtered, score |-> score]
    ELSE IF filtered[i + 1].value = filtered[i + 2].value
         THEN LET merged == [filtered[i + 1] EXCEPT !.value = filtered[i + 1].value * 2]
              IN  mergeLoop([filtered EXCEPT ![i + 1] = merged, ![i + 2] = Null],
                            i + 2, score + merged.value)
         ELSE mergeLoop(filtered, i + 1, score)

padRow(filtered) == filtered \o [k \in 1..(N - Len(filtered)) |-> Null]

moveRowLeft(row) ==
    LET merged == mergeLoop(SelectSeq(row, NotNull), 0, 0)
    IN  [row |-> padRow(SelectSeq(merged.row, NotNull)), score |-> merged.score]

-----------------------------------------------------------------------------
(* move *)

transpose(board) == [c \in Idx |-> [r \in Idx |-> board[r][c]]]

reverseRows(board) == [r \in Idx |-> Reverse(board[r])]

\* the four moveRowLeft calls of one case of the switch
reduceRows(board) ==
    [board |-> [r \in Idx |-> moveRowLeft(board[r]).row],
     score |-> moveRowLeft(board[1]).score + moveRowLeft(board[2]).score
               + moveRowLeft(board[3]).score + moveRowLeft(board[4]).score]

\* the switch of move: newBoard and totalScore before updateTilePositions
moveSwitch(board, direction) ==
    CASE direction = "left" ->
            reduceRows(board)
      [] direction = "right" ->
            LET res == reduceRows(reverseRows(board))
            IN  [board |-> reverseRows(res.board), score |-> res.score]
      [] direction = "up" ->
            LET res == reduceRows(transpose(board))
            IN  [board |-> transpose(res.board), score |-> res.score]
      [] direction = "down" ->
            LET res == reduceRows(reverseRows(transpose(board)))
            IN  [board |-> transpose(reverseRows(res.board)), score |-> res.score]
      [] OTHER -> [board |-> board, score |-> 0]

\* the first occupied cell in row-major order, 0 when there is none
RECURSIVE firstTile(_, _)
firstTile(board, k) ==
    IF k >= N * N THEN 0
    ELSE IF board[(k \div N) + 1][(k % N) + 1] # Null THEN k + 1
    ELSE firstTile(board, k + 1)

\* updateTilePositions: the loop body ends in `return false`, so the function
\* returns false at the first occupied cell and the copy only for an empty board
updateTilePositions(board) ==
    IF firstTile(board, 0) # 0 THEN JSFalse ELSE board

\* boardsEqual: reading board2[row][col] of a board2 that is `false` raises a
\* TypeError (false[0] is undefined); otherwise cells are compared by value
boardsEqual(board1, board2) ==
    IF board2 = JSFalse THEN [threw |-> TRUE, value |-> FALSE]
    ELSE [threw |-> FALSE,
          value |-> \A r \in Idx, c \in Idx :
                       \/ board1[r][c] = Null /\ board2[r][c] = Null
                       \/ /\ board1[r][c] # Null
                          /\ board2[r][c] # Null
                          /\ board1[r][c].value = board2[r][c].value]

move(board, direction) ==
    LET res      == moveSwitch(board, direction)
        newBoard == updateTilePositions(res.board)
        eq       == boardsEqual(board, newBoard)
    IN  IF eq.threw
        THEN [threw |-> TRUE, board |-> JSFalse, score |-> 0, isValidMove |-> FALSE]
        ELSE [threw |-> FALSE, board |-> newBoard, score |-> res.score,
              isValidMove |-> ~eq.value]

-----------------------------------------------------------------------------
(* computeTransitionsUIOnly (HomeScreen) *)

\* nonEmpty[i].v === nonEmpty[i+1].v, where v is what the board holds in the
\* cell: HomeScreen hands over state.board, whose cells hold tile objects, and
\* === on objects is identity; the objects of two cells are never the same
StrictEqual(cell1, cell2) == cell1.r = cell2.r /\ cell1.c = cell2.c

\* the while loop of processLine: the froms of every target, from index i on
RECURSIVE targetsFrom(_, _)
targetsFrom(nonEmpty, i) ==
    IF i >= Len(nonEmpty) THEN <<>>
    ELSE IF i + 1 < Len(nonEmpty) /\ StrictEqual(nonEmpty[i + 1], nonEmpty[i + 2])
         THEN << <<nonEmpty[i + 1], nonEmpty[i + 2]>> >> \o targetsFrom(nonEmpty, i + 2)
         ELSE << <<nonEmpty[i + 1]>> >> \o targetsFrom(nonEmpty, i + 1)

HasTile(cell) == cell.v # Null

\* the moves pushed for the targets idx .. of one line
RECURSIVE movesOfTargets(_, _, _, _, _)
movesOfTargets(targets, idx, isRow, fixedIndex, direction) ==
    IF idx >= Len(targets) THEN <<>>
    ELSE LET destIndex == IF (isRow /\ direction = "right") \/ (~isRow /\ direction = "down")
                          THEN N - 1 - idx ELSE idx
             to == IF isRow THEN [r |-> fixedIndex, c |-> destIndex]
                            ELSE [r |-> destIndex, c |-> fixedIndex]
             froms == targets[idx + 1]
         IN  [k \in 1..Len(froms) |->
                 [from |-> [r |-> froms[k].r, c |-> froms[k].c], to |-> to,
                  value |-> froms[k].v]]
             \o movesOfTargets(targets, idx + 1, isRow, fixedIndex, direction)

processLine(cells, isRow, fixedIndex, direction) ==
    movesOfTargets(targetsFrom(SelectSeq(cells, HasTile), 0), 0, isRow, fixedIndex, direction)

\* the line handed to processLine for row or column k (0-based)
lineOf(prevBoard, direction, k) ==
    IF direction \in {"left", "right"}
    THEN [j \in Idx |-> LET cc == IF direction = "left" THEN j - 1 ELSE N - j
                        IN  [v |-> prevBoard[k + 1][cc + 1], r |-> k, c |-> cc]]
    ELSE [j \in Idx |-> LET rr == IF direction = "up" THEN j - 1 ELSE N - j
                        IN  [v |-> prevBoard[rr + 1][k + 1], r |-> rr, c |-> k]]

computeTransitionsUIOnly(prevBoard, direction) ==
    LET isRow == direction \in {"left", "right"}
    IN  processLine(lineOf(prevBoard, direction, 0), isRow, 0, direction)
        \o processLine(lineOf(prevBoard, direction, 1), isRow, 1, direction)
        \o processLine(lineOf(prevBoard, direction, 2), isRow, 2, direction)
        \o processLine(lineOf(prevBoard, direction, 3), isRow, 3, direction)

-----------------------------------------------------------------------------
(* checkWin, checkGameOver, getHighestTile *)

checkWin(board) ==
    \E r \in Idx, c \in Idx : board[r][c] # Null /\ board[r][c].value = WinValue

\* the for-of loop over ['left', 'right', 'up', 'down']
RECURSIVE gameOverLoop(_, _)
gameOverLoop(board, directions) ==
    IF directions = <<>> THEN [threw |-> FALSE, value |-> TRUE]
    ELSE LET result == move(board, Head(directions))
         IN  IF result.threw THEN [threw |-> TRUE, value |-> FALSE]
             ELSE IF result.isValidMove THEN [threw |-> FALSE, value |-> FALSE]
             ELSE gameOverLoop(board, Tail(directions))

checkGameOver(board) ==
    IF Len(getEmptyPositions(board)) > 0 THEN [threw |-> FALSE, value |-> FALSE]
    ELSE gameOverLoop(board, <<"left", "right", "up", "down">>)

-----------------------------------------------------------------------------
(* The boards the functions are called with *)

SmallValues == {Pow2(k) : k \in 1..MaxExp}

\* every line of four cell values, 0 standing for an empty cell
Lines == [Idx -> {0} \cup SmallValues]

ZeroLine == [c \in Idx |-> 0]
Dbl(line) == [c \in Idx |-> 2 * line[c]]

\* boards of cell values built around one line L: the line repeated, mirrored,
\* interleaved with empty rows, stacked on its double, and turned into columns
Templates(L) ==
    { <<L, L, L, L>>,
      <<L, Reverse(L), L, Reverse(L)>>,
      <<L, ZeroLine, L, ZeroLine>>,
      <<L, Dbl(L), L, Dbl(L)>>,
      <<ZeroLine, L, ZeroLine, Dbl(L)>>,
      [r \in Idx |-> [c \in Idx |-> <<L, Reverse(L), ZeroLine, Dbl(L)>>[c][r]]] }

\* the values around the win threshold, put in the last cell of a board
HighValues == {WinValue \div 2, WinValue, 2 * WinValue}

WithCorner(vb, h) == IF h = 0 THEN vb ELSE [vb EXCEPT ![N][N] = h]

\* the board of tiles with the given cell values; the tile in row r, column c
\* (0-based) carries the identifier N * r + c + 1
TilesOf(vb) ==
    [r \in Idx |-> [c \in Idx |->
        IF vb[r][c] = 0 THEN Null
        ELSE Tile(vb[r][c], r - 1, c - 1, N * (r - 1) + c)]]

InputBoards ==
    { TilesOf(WithCorner(vb, h)) :
        vb \in UNION { Templates(L) : L \in Lines }, h \in {0} \cup HighValues }

NoResult == [threw |-> FALSE, board |-> JSFalse, score |-> 0, flag |-> FALSE,
             row |-> <<>>]

\* GameContext's initialState (the settings are left out)
initialState ==
    [board |-> createEmptyBoard, score |-> 0, bestScore |-> 0,
     gameState |-> "playing", isAnimating |-> FALSE, hasWon |-> FALSE,
     maxLevel |-> 0, maxScore |-> 0, maxTime |-> 0, gameHistory |-> <<>>,
     showOnboarding |-> TRUE, isLoading |-> TRUE]

\* the Home screen as it is mounted
HomeMounted ==
    /\ state = initialState
    /\ moveCount = 0
    /\ animationPhase = "idle"
    /\ rendered = [state |-> initialState, animationPhase |-> "idle", moveCount |-> 0]
    /\ animation = JSFalse
    /\ handled = "none"

\* what AsyncStorage.getItem('2048_info') can come to: a JSON text of a
\* record, nothing, a text JSON.parse rejects, or a rejected read
StoredRecords ==
    { [hasSeenOnboarding |-> TRUE],
      [maxScore |-> MaxStoredScore],
      [hasSeenOnboarding |-> TRUE, maxScore |-> MaxStoredScore,
       maxLevel |-> 2 * MaxStoredScore, maxTime |-> MaxStoredScore + 1,
       gameHistory |-> <<[id |-> 1]>>] }

StoredOutcomes ==
    { [kind |-> "present", data |-> d] : d \in StoredRecords }
    \cup { [kind |-> k, data |-> <<>>] : k \in {"missing", "unparsable", "failed"} }

\* GameProvider as it is mounted: the effect has called initializeApp, which
\* waits for StorageUtils.getUserData()
ProviderMounted(outcomes) ==
    /\ stored \in outcomes
    /\ boot = "getUserData"
    /\ disk = stored.data
    /\ setDataCalls = <<>>

\* no merge is being animated
NoMergeAnim == [group |-> <<>>, slideFrame |-> 0, playFrame |-> 0]

\* no move is sliding
NoSlide == [board |-> JSFalse, frame |-> 0, timer |-> "none", running |-> FALSE,
            spawns |-> <<>>]

\* the app is in the foreground, savedStateRef.current is null (falsy) and no
\* Alert is shown
InForeground ==
    /\ appState = "active"
    /\ savedStateRef = JSFalse
    /\ alert = "none"

InitLogic ==
    /\ argBoard \in InputBoards
    /\ argDirection = "left"
    /\ call = "none"
    /\ ret = NoResult
    /\ HomeMounted
    /\ ProviderMounted({[kind |-> "missing", data |-> <<>>]})
    /\ mergeAnim = NoMergeAnim
    /\ slide = NoSlide
    /\ InForeground

\* moveRowLeft(argBoard[r]); the row handed over is kept as argBoard[1]
CallMoveRowLeft ==
    /\ call = "none"
    /\ \E r \in Idx :
          /\ argDirection' = "left"
          /\ argBoard' = <<argBoard[r]>>
          /\ ret' = [NoResult EXCEPT !.row = moveRowLeft(argBoard[r]).row,
                                     !.score = moveRowLeft(argBoard[r]).score]
    /\ call' = "moveRowLeft"
    /\ UNCHANGED outsideLogic

\* move(argBoard, direction)
CallMove ==
    /\ call = "none"
    /\ \E direction \in Directions :
          /\ argDirection' = direction
          /\ LET result == move(argBoard, direction)
             IN  ret' = [NoResult EXCEPT !.threw = result.threw,
                                        !.board = result.board,
                                        !.score = result.score,
                                        !.flag = result.isValidMove]
    /\ call' = "move"
    /\ UNCHANGED <<argBoard, outsideLogic>>

\* checkWin(argBoard)
CallCheckWin ==
    /\ call = "none"
    /\ ret' = [NoResult EXCEPT !.flag = checkWin(argBoard)]
    /\ call' = "checkWin"
    /\ UNCHANGED <<argBoard, argDirection, outsideLogic>>

\* checkGameOver(argBoard)
CallCheckGameOver ==
    /\ call = "none"
    /\ LET result == checkGameOver(argBoard)
       IN  ret' = [NoResult EXCEPT !.threw = result.threw, !.flag = result.value]
    /\ call' = "checkGameOver"
    /\ UNCHANGED <<argBoard, argDirection, outsideLogic>>

\* addRandomTile(argBoard)
CallAddRandomTile ==
    /\ call = "none"
    /\ \E pick \in Picks(argBoard), value \in SpawnValues, id \in NanoIds :
          ret' = [NoResult EXCEPT !.board = addRandomTile(argBoard, pick, value, id)]
    /\ call' = "addRandomTile"
    /\ UNCHANGED <<argBoard, argDirection, outsideLogic>>

\* computeTransitionsUIOnly(argBoard, _, direction), as handleMove calls it
\* with prev = state.board
CallComputeTransitions ==
    /\ call = "none"
    /\ \E direction \in Directions :
          /\ argDirection' = direction
          /\ ret' = [NoResult EXCEPT !.row = computeTransitionsUIOnly(argBoard, direction)]
    /\ call' = "computeTransitionsUIOnly"
    /\ UNCHANGED <<argBoard, outsideLogic>>

NextLogic ==
    \/ CallMoveRowLeft
    \/ CallMove
    \/ CallCheckWin
    \/ CallCheckGameOver
    \/ CallAddRandomTile
    \/ CallComputeTransitions

SpecLogic == InitLogic /\ [][NextLogic]_vars

-----------------------------------------------------------------------------
(* What the line reduction is to compute, stated on cell values *)

NonZero(v) == v # 0

LineValues(row) == [c \in 1..Len(row) |-> row[c].value]

\* one pass from the wall side: a tile equal to its right neighbour absorbs it
\* and the pass goes on behind the pair
RECURSIVE MergePairs(_)
MergePairs(vs) ==
    IF Len(vs) < 2 THEN vs
    ELSE IF vs[1] = vs[2] THEN <<2 * vs[1]>> \o MergePairs(SubSeq(vs, 3, Len(vs)))
    ELSE <<vs[1]>> \o MergePairs(Tail(vs))

\* the values the merges of that pass produce, added up
RECURSIVE PairScore(_)
PairScore(vs) ==
    IF Len(vs) < 2 THEN 0
    ELSE IF vs[1] = vs[2] THEN 2 * vs[1] + PairScore(SubSeq(vs, 3, Len(vs)))
    ELSE PairScore(Tail(vs))

PadZero(vs) == vs \o [k \in 1..(N - Len(vs)) |-> 0]

ExpectedLine(vs) == PadZero(MergePairs(SelectSeq(vs, NonZero)))

\* line k of a board of values, read from the wall the direction points to
LineToward(vb, direction, k) ==
    CASE direction = "left"  -> vb[k]
      [] direction = "right" -> Reverse(vb[k])
      [] direction = "up"    -> [r \in Idx |-> vb[r][k]]
      [] direction = "down"  -> [r \in Idx |-> vb[N + 1 - r][k]]

SumLine(vs) == vs[1] + vs[2] + vs[3] + vs[4]
SumBoard(vb) == SumLine(vb[1]) + SumLine(vb[2]) + SumLine(vb[3]) + SumLine(vb[4])

CountOf(vb, v) == Cardinality({rc \in Idx \X Idx : vb[rc[1]][rc[2]] = v})

\* the multiset of values of vb2 comes from that of vb1 by replacing pairs
\* v, v by 2v: going up from 2, what is left over at each value is an even
\* number of tiles, merged pairwise into the next value (carry pairs of v / 2)
RECURSIVE ReducibleFrom(_, _, _, _)
ReducibleFrom(vb1, vb2, v, carry) ==
    LET avail == CountOf(vb1, v) + carry
        used  == avail - CountOf(vb2, v)
    IN  IF v > 4 * WinValue * N * N THEN carry = 0
        ELSE /\ used >= 0
             /\ used % 2 = 0
             /\ ReducibleFrom(vb1, vb2, 2 * v, used \div 2)

Reducible(vb1, vb2) == ReducibleFrom(vb1, vb2, 2, 0)

IsFull(board) == \A r \in Idx, c \in Idx : board[r][c] # Null

HasEqualNeighbours(board) ==
    \E r \in Idx, c \in Idx :
        /\ board[r][c] # Null
        /\ \/ c < N /\ board[r][c + 1] # Null /\ board[r][c + 1].value = board[r][c].value
           \/ r < N /\ board[r + 1][c] # Null /\ board[r + 1][c].value = board[r][c].value

IsBoard(b) ==
    /\ DOMAIN b = Idx
    /\ \A r \in Idx : DOMAIN b[r] = Idx

-----------------------------------------------------------------------------
(* Claims about the functions of GameLogic *)

C2_ValidIffBoardChanged ==
    call = "move" =>
        /\ ~ret.threw
        /\ ret.flag <=> (ValuesOf(ret.board) # ValuesOf(argBoard))

\* C3: move, checkWin, checkGameOver and addRandomTile return a result of their
\* declared shape on every well-formed board and never fail with an error.
C3_FunctionsAreTotal ==
    /\ call \in {"move", "checkWin", "checkGameOver", "addRandomTile"} => ~ret.threw
    /\ call \in {"move", "addRandomTile"} => IsBoard(ret.board)

\* C4: the score returned by move is the sum of the values produced by the
\* merges of the four lines, each merge counted once, 0 without a merge.
C4_ScoreIsSumOfMerges ==
    call = "move" =>
        /\ ~ret.threw
        /\ ret.score = PairScore(SelectSeq(LineToward(ValuesOf(argBoard), argDirection, 1), NonZero))
                       + PairScore(SelectSeq(LineToward(ValuesOf(argBoard), argDirection, 2), NonZero))
                       + PairScore(SelectSeq(LineToward(ValuesOf(argBoard), argDirection, 3), NonZero))
                       + PairScore(SelectSeq(LineToward(ValuesOf(argBoard), argDirection, 4), NonZero))

\* C5: the board returned by move has the same sum of tile values as the input
\* board, and its multiset of values comes from the input's only by replacing
\* pairs of equal values v, v by 2v.
C5_MoveConservesValues ==
    call = "move" =>
        /\ ~ret.threw
        /\ SumBoard(ValuesOf(ret.board)) = SumBoard(ValuesOf(argBoard))
        /\ Reducible(ValuesOf(argBoard), ValuesOf(ret.board))

\* C6: checkWin returns true exactly when some tile has a value of at least
\* 2048.
C6_CheckWinAtLeastThreshold ==
    call = "checkWin" =>
        (ret.flag <=> \E r \in Idx, c \in Idx : argBoard[r][c].value >= WinValue)

\* C7: checkGameOver returns true exactly when the board has no empty cell and
\* no two horizontally or vertically adjacent tiles of equal value.
C7_GameOverIffFullAndStuck ==
    call = "checkGameOver" =>
        /\ ~ret.threw
        /\ ret.flag <=> (IsFull(argBoard) /\ ~HasEqualNeighbours(argBoard))

\* the cell values after the transitions have been replayed on the board:
\* every source tile goes to its 'to' cell, two tiles arriving at one cell
\* become one tile of double value, a tile without a transition stays
Replay(board, moves) ==
    [r \in Idx |-> [c \in Idx |->
        LET arriving == {k \in 1..Len(moves) :
                            moves[k].to = [r |-> r - 1, c |-> c - 1]}
            staying  == board[r][c] # Null
                        /\ \A k \in 1..Len(moves) :
                               moves[k].from # [r |-> r - 1, c |-> c - 1]
            first    == CHOOSE k \in arriving : \A j \in arriving : k <= j
        IN  IF arriving = {} THEN (IF staying THEN board[r][c].value ELSE 0)
            ELSE IF Cardinality(arriving) = 1 /\ ~staying THEN moves[first].value.value
            ELSE 2 * moves[first].value.value]]

\* C12: for every board and direction, replaying the transitions computed by
\* computeTransitionsUIOnly on the pre-move board yields exactly the cell
\* values of the board returned by move for the same board and direction.
C12_TransitionsAgreeWithMove ==
    call = "computeTransitionsUIOnly" =>
        /\ ~move(argBoard, argDirection).threw
        /\ Replay(argBoard, ret.row) = ValuesOf(move(argBoard, argDirection).board)

\* the same comparison with the board that the switch of move computes, before
\* updateTilePositions is called on it
ReplayAgreesWithMoveSwitch ==
    call = "computeTransitionsUIOnly" =>
        Replay(argBoard, ret.row) = ValuesOf(moveSwitch(argBoard, argDirection).board)

\* the cells in which two boards differ
DiffCells(b1, b2) == {rc \in Idx \X Idx : b1[rc[1]][rc[2]] # b2[rc[1]][rc[2]]}

\* C15: addRandomTile applied to a board with no empty cell returns the board
\* unchanged (the same contents in all 16 cells) and does not fail.
C15_FullBoardIsReturned ==
    (call = "addRandomTile" /\ IsFull(argBoard)) =>
        /\ ~ret.threw
        /\ IsBoard(ret.board)
        /\ \A r \in Idx, c \in Idx : ret.board[r][c] = argBoard[r][c]

\* addRandomTile has been called on a full board and has answered with it
C15_Witness ==
    /\ call = "addRandomTile"
    /\ IsFull(argBoard)
    /\ ret.board = argBoard

\* C16: addRandomTile applied to a board with at least one empty cell returns
\* a board that differs from the input in exactly one cell; that cell was
\* empty in the input and now holds a tile of value 2 or 4 whose row and col
\* fields are the indices of the cell; every other cell is unchanged, and the
\* input board is not modified by the call.
C16_SpawnsExactlyOneTile ==
    [][(call = "none" /\ call' = "addRandomTile" /\ ~IsFull(argBoard)) =>
          /\ argBoard' = argBoard
          /\ IsBoard(ret'.board)
          /\ Cardinality(DiffCells(argBoard, ret'.board)) = 1
          /\ \A rc \in DiffCells(argBoard, ret'.board) :
                /\ argBoard[rc[1]][rc[2]] = Null
                /\ ret'.board[rc[1]][rc[2]].value \in {SpawnLow, SpawnHigh}
                /\ ret'.board[rc[1]][rc[2]].row = rc[1] - 1
                /\ ret'.board[rc[1]][rc[2]].col = rc[2] - 1]_vars

\* addRandomTile has put a 4 into the empty cell of row 0, column 3 of a board
\* that has tiles as well
C16_Witness ==
    /\ call = "addRandomTile"
    /\ argBoard[1][N] = Null
    /\ argBoard # createEmptyBoard
    /\ ret.board = [argBoard EXCEPT ![1][N] = ret.board[1][N]]
    /\ ret.board[1][N].value = SpawnHigh
    /\ ret.board[1][N].row = 0
    /\ ret.board[1][N].col = N - 1

-----------------------------------------------------------------------------
(* GameContext: the reducer *)

Max(a, b) == IF a >= b THEN a ELSE b
Min(a, b) == IF a <= b THEN a ELSE b

\* { ...state, ...payload }
Spread(s, payload) ==
    [f \in DOMAIN s \cup DOMAIN payload |-> IF f \in DOMAIN payload THEN payload[f] ELSE s[f]]

\* obj?.field || dflt for a numeric or list field, obj being a record or null
\* (the record without fields)
FieldOr(obj, field, dflt) == IF field \in DOMAIN obj THEN obj[field] ELSE dflt

\* the history without the slice
addGameToHistoryUncapped(gameHistory, payload) == <<payload>> \o gameHistory

\* [action.payload, ...state.gameHistory].slice(0, 50)
addGameToHistory(gameHistory, payload) ==
    SubSeq(<<payload>> \o gameHistory, 1, Min(HistoryCap, Len(gameHistory) + 1))

\* the maxTime of UPDATE_STATS
updatedMaxTime(s, payload) ==
    IF "maxTime" \in DOMAIN payload
    THEN IF s.maxTime = 0 \/ (payload.maxTime > 0 /\ payload.maxTime < s.maxTime)
         THEN payload.maxTime ELSE s.maxTime
    ELSE s.maxTime

\* UPDATE_SCORE with the best score set to the payload
updateScoreNoMax(s, payload) == [s EXCEPT !.score = payload, !.bestScore = payload]

\* UPDATE_SCORE: score: action.payload, bestScore: Math.max(state.bestScore,
\* action.payload)
updateScore(s, payload) ==
    [s EXCEPT !.score = payload, !.bestScore = Max(s.bestScore, payload)]

gameReducer(s, type, payload) ==
    CASE type = "INITIALIZE_APP" -> [Spread(s, payload) EXCEPT !.isLoading = FALSE]
      [] type = "SET_BOARD" -> [s EXCEPT !.board = payload]
      [] type = "UPDATE_SCORE" -> updateScore(s, payload)
      [] type = "SET_GAME_STATE" -> [s EXCEPT !.gameState = payload]
      [] type = "SET_ANIMATING" -> [s EXCEPT !.isAnimating = payload]
      [] type = "UPDATE_STATS" ->
            [s EXCEPT !.maxLevel = Max(s.maxLevel, FieldOr(payload, "maxLevel", 0)),
                      !.maxScore = Max(s.maxScore, FieldOr(payload, "maxScore", 0)),
                      !.maxTime = updatedMaxTime(s, payload)]
      [] type = "ADD_GAME_TO_HISTORY" ->
            [s EXCEPT !.gameHistory = addGameToHistory(s.gameHistory, payload)]
      [] type = "NEW_GAME" ->
            [s EXCEPT !.board = payload, !.score = 0, !.gameState = "playing",
                      !.hasWon = FALSE]
      [] type = "HIDE_ONBOARDING" -> [s EXCEPT !.showOnboarding = FALSE]
      [] type = "SET_HAS_WON" -> [s EXCEPT !.hasWon = payload]
      [] OTHER -> s

-----------------------------------------------------------------------------
(* Start-up: StorageUtils and initializeApp *)

\* StorageUtils.getData(): the parsed record, or null (the record without
\* fields) when nothing is stored, when JSON.parse throws or when the read is
\* rejected; both failures are caught inside getData
getData(outcome) == IF outcome.kind = "present" THEN outcome.data ELSE <<>>

\* the payload with the best score of a record that has none taken to be 1
initPayloadBestOne(gameData) ==
    [showOnboarding |-> ~FieldOr(gameData, "hasSeenOnboarding", FALSE),
     bestScore      |-> FieldOr(gameData, "maxScore", 1),
     maxLevel       |-> FieldOr(gameData, "maxLevel", 0),
     maxScore       |-> FieldOr(gameData, "maxScore", 0),
     maxTime        |-> FieldOr(gameData, "maxTime", 0),
     gameHistory    |-> FieldOr(gameData, "gameHistory", <<>>)]

\* the payload initializeApp builds from gameData
initPayload(gameData) ==
    [showOnboarding |-> ~FieldOr(gameData, "hasSeenOnboarding", FALSE),
     bestScore      |-> FieldOr(gameData, "maxScore", 0),
     maxLevel       |-> FieldOr(gameData, "maxLevel", 0),
     maxScore       |-> FieldOr(gameData, "maxScore", 0),
     maxTime        |-> FieldOr(gameData, "maxTime", 0),
     gameHistory    |-> FieldOr(gameData, "gameHistory", <<>>)]

\* initializeApp, first await: StorageUtils.getUserData() settles (it catches
\* its own errors); the user data is not used
GetUserDataSettles ==
    /\ boot = "getUserData"
    /\ boot' = "getData"
    /\ UNCHANGED <<stored, disk, setDataCalls, homeVars, logicVars, otherVars>>

-----------------------------------------------------------------------------
(* The Home screen *)

\* initializeApp, second await: StorageUtils.getData() settles, the payload
\* is built from the record and INITIALIZE_APP is dispatched
InitializeApp ==
    /\ boot = "getData"
    /\ state' = gameReducer(state, "INITIALIZE_APP", initPayload(getData(stored)))
    /\ boot' = "done"
    /\ UNCHANGED <<moveCount, animationPhase, rendered, animation,
                   handled, stored, disk, setDataCalls, logicVars, otherVars>>

\* the onboarding screen is left: saveGameData, then HIDE_ONBOARDING
HideOnboarding ==
    /\ ~state.isLoading
    /\ state.showOnboarding
    /\ state' = gameReducer(state, "HIDE_ONBOARDING", FALSE)
    /\ UNCHANGED <<moveCount, animationPhase, rendered, animation,
                   handled, outsideHome>>

\* React renders the component again: the callbacks close over the current
\* state, and the effects copy it to latestStateRef and latestMoveCountRef
Render ==
    /\ rendered # [state |-> state, animationPhase |-> animationPhase,
                   moveCount |-> moveCount]
    /\ rendered' = [state |-> state, animationPhase |-> animationPhase,
                    moveCount |-> moveCount]
    /\ UNCHANGED <<state, moveCount, animationPhase, animation,
                   handled, outsideHome>>

\* initializeBoard: two addRandomTile calls on the empty board
initializeBoard(p1, v1, id1, p2, v2, id2) ==
    addRandomTile(addRandomTile(createEmptyBoard, p1, v1, id1), p2, v2, id2)

\* the draws a spawn makes on the Home screen
HomePicks(board) == {p \in Picks(board) : p <= MaxPick}

\* the boards initializeBoard can return on the Home screen
NewGameBoards ==
    UNION { { initializeBoard(p1, v1, id1, p2, v2, id2) :
                p2 \in HomePicks(addRandomTile(createEmptyBoard, p1, v1, id1)),
                v2 \in SpawnValues, id2 \in NanoIds } :
            p1 \in HomePicks(createEmptyBoard), v1 \in SpawnValues, id1 \in NanoIds }

\* startNewGame, called by the first-load effect when the board is empty and
\* by the New Game button; the update is flushed with the event that made it
StartNewGame ==
    /\ ~rendered.state.isLoading
    /\ ~rendered.state.showOnboarding
    /\ \E newBoard \in NewGameBoards :
          state' = gameReducer(state, "NEW_GAME", newBoard)
    /\ moveCount' = 0
    /\ rendered' = [state |-> state', animationPhase |-> animationPhase,
                    moveCount |-> 0]
    /\ UNCHANGED <<animationPhase, animation, handled,
                   outsideHome>>

\* startNewGame called from the continuation of a promise
StartNewGameState ==
    /\ \E newBoard \in NewGameBoards :
          state' = gameReducer(state, "NEW_GAME", newBoard)
    /\ moveCount' = 0
    /\ rendered' = [state |-> state', animationPhase |-> animationPhase,
                    moveCount |-> 0]
    /\ UNCHANGED <<animationPhase, animation, handled,
                   logicVars, bootVars, mergeAnim, slide, appState, savedStateRef>>

\* handleMove(direction) with the validity check left out: every direction
\* that move resolves is animated
handleMoveUnchecked(direction) ==
    IF rendered.state.gameState # "playing" \/ rendered.animationPhase # "idle"
    THEN /\ handled' = "dropped"
         /\ UNCHANGED <<state, moveCount, animationPhase, rendered, animation, outsideHome>>
    ELSE LET result == move(rendered.state.board, direction)
         IN  IF result.threw
             THEN /\ handled' = "rejected"
                  /\ UNCHANGED <<state, moveCount, animationPhase, rendered,
                                 animation, outsideHome>>
             ELSE LET newScore == rendered.state.score + result.score
                  IN  /\ animationPhase' = "animating"
                      /\ state' = gameReducer(gameReducer(state, "SET_ANIMATING", TRUE),
                                              "UPDATE_SCORE", newScore)
                      /\ animation' = [board |-> result.board, newScore |-> newScore,
                                       state |-> rendered.state,
                                       pending |-> "completion"]
                      /\ handled' = "accepted"
                      /\ UNCHANGED <<moveCount, rendered, outsideHome>>

\* handleMove(direction), as the callback of the last render runs it: the gate,
\* move on the board of that render, and then either the shake of an invalid
\* move or the start of the animation of a valid one.  An exception raised by
\* move rejects the promise of the async function and nothing else happens.
handleMove(direction) ==
    IF rendered.state.gameState # "playing" \/ rendered.animationPhase # "idle"
    THEN /\ handled' = "dropped"
         /\ UNCHANGED <<state, moveCount, animationPhase, rendered, animation, outsideHome>>
    ELSE LET result == move(rendered.state.board, direction)
         IN  IF result.threw
             THEN /\ handled' = "rejected"
                  /\ UNCHANGED <<state, moveCount, animationPhase, rendered,
                                 animation, outsideHome>>
             ELSE IF ~result.isValidMove
             THEN /\ handled' = "invalid"
                  /\ UNCHANGED <<state, moveCount, animationPhase, rendered,
                                 animation, outsideHome>>
             ELSE LET newScore == rendered.state.score + result.score
                  IN  /\ animationPhase' = "animating"
                      /\ state' = gameReducer(gameReducer(state, "SET_ANIMATING", TRUE),
                                              "UPDATE_SCORE", newScore)
                      /\ animation' = [board |-> result.board, newScore |-> newScore,
                                       state |-> rendered.state,
                                       pending |-> "completion"]
                      /\ handled' = "accepted"
                      /\ UNCHANGED <<moveCount, rendered, outsideHome>>

\* the keydown listener (web): an arrow key, unless the render it belongs
\* to was animating
KeyPress ==
    /\ \E direction \in Directions :
          IF rendered.state.isAnimating
          THEN /\ handled' = "dropped"
               /\ UNCHANGED <<state, moveCount, animationPhase, rendered,
                              animation, outsideHome>>
          ELSE handleMove(direction)

\* onPanResponderRelease: a swipe longer than the threshold on the board,
\* which is on screen once loading is over
SwipeRelease ==
    /\ ~rendered.state.isLoading
    /\ \E direction \in Directions :
          IF rendered.animationPhase # "idle"
          THEN /\ handled' = "dropped"
               /\ UNCHANGED <<state, moveCount, animationPhase, rendered,
                              animation, outsideHome>>
          ELSE handleMove(direction)

\* the app as it is started with the given outcomes of the stored record
InitApp(outcomes) ==
    /\ argBoard = createEmptyBoard
    /\ argDirection = "left"
    /\ call = "none"
    /\ ret = NoResult
    /\ HomeMounted
    /\ ProviderMounted(outcomes)
    /\ mergeAnim = NoMergeAnim
    /\ slide = NoSlide
    /\ InForeground

NextHome ==
    \/ GetUserDataSettles
    \/ InitializeApp
    \/ HideOnboarding
    \/ Render
    \/ StartNewGame
    \/ KeyPress
    \/ SwipeRelease

\* a first start (nothing stored) and a later one (onboarding seen)
InitHome ==
    InitApp({ [kind |-> "missing", data |-> <<>>],
              [kind |-> "present", data |-> [hasSeenOnboarding |-> TRUE]] })

\* a start with every outcome of the stored record
InitStartup == InitApp(StoredOutcomes)

Spec == InitHome /\ [][NextHome]_vars

\* the two reads of initializeApp are promises of AsyncStorage, which settle
\* (resolved or rejected), and their continuations are run by the event loop
SpecStartup ==
    InitStartup /\ [][NextHome]_vars
    /\ WF_vars(GetUserDataSettles) /\ WF_vars(InitializeApp)

-----------------------------------------------------------------------------
(* Claims about the Home screen *)

\* handleMove, called with the direction, gets past its gate
PassesGate == rendered.state.gameState = "playing" /\ rendered.animationPhase = "idle"

\* the line reduction of the direction changes the value of some cell
ChangesBoard(board, direction) ==
    ValuesOf(moveSwitch(board, direction).board) # ValuesOf(board)

\* C9: when handleMove receives a direction for which move reports
\* isValidMove = false, the board, the score, the best score, the move count
\* and the game state stay as they are, no tile is spawned, no animation is
\* started and the choreographer stays idle (animationPhase 'idle',
\* isAnimating false).
C9_InvalidMoveChangesNothing ==
    [][\A direction \in Directions :
          ( /\ PassesGate
            /\ ~move(rendered.state.board, direction).threw
            /\ ~move(rendered.state.board, direction).isValidMove
            /\ handleMove(direction) )
          => /\ state' = state
             /\ moveCount' = moveCount
             /\ animation' = animation
             /\ animationPhase' = "idle"
             /\ ~state'.isAnimating]_vars

\* handleMove has answered a direction with the shake of an invalid move and
\* the screen is idle
C9_Witness ==
    /\ handled = "invalid"
    /\ animationPhase = "idle"
    /\ ~state.isAnimating
    /\ animation = JSFalse

-----------------------------------------------------------------------------
(* endGame and the history of finished games *)

\* the id of a game is the Date.now() of its start: later games have larger
\* ids; the ids are numbered 1, 2, ...
nextGameId(gameHistory) ==
    IF gameHistory = <<>> THEN 1 ELSE gameHistory[1].id + 1

\* the session once start-up is over
Started ==
    /\ stored \in StoredOutcomes
    /\ boot = "done"
    /\ disk = stored.data
    /\ setDataCalls = <<>>
    /\ state = gameReducer(initialState, "INITIALIZE_APP", initPayload(getData(stored)))
    /\ moveCount = 0
    /\ animationPhase = "idle"
    /\ rendered = [state |-> state, animationPhase |-> "idle", moveCount |-> 0]
    /\ animation = JSFalse
    /\ handled = "none"

InitHistory ==
    /\ argBoard = createEmptyBoard
    /\ argDirection = "left"
    /\ call = "none"
    /\ ret = NoResult
    /\ Started
    /\ mergeAnim = NoMergeAnim
    /\ slide = NoSlide
    /\ InForeground

\* endGame(finalBoard, finalScore, won): the result of the game (of which the
\* id is kept here), UPDATE_STATS and ADD_GAME_TO_HISTORY
EndGame ==
    /\ nextGameId(state.gameHistory) <= MaxGames
    /\ \E finalScore \in {0, MaxStoredScore}, highestTile \in SpawnValues :
          LET gameResult == [id |-> nextGameId(state.gameHistory)]
              stats == [maxLevel |-> Max(state.maxLevel, highestTile),
                        maxScore |-> Max(state.maxScore, finalScore),
                        maxTime  |-> state.maxTime]
          IN  state' = gameReducer(gameReducer(state, "UPDATE_STATS", stats),
                                   "ADD_GAME_TO_HISTORY", gameResult)
    /\ rendered' = [rendered EXCEPT !.state = state']
    /\ UNCHANGED <<moveCount, animationPhase, animation, handled, outsideHome>>

NextHistory == EndGame

SpecHistory == InitHistory /\ [][NextHistory]_vars

\* C19: after any sequence of ADD_GAME_TO_HISTORY actions the history holds
\* at most 50 entries, most recent first: the head is the result added last,
\* the retained entries are in the reverse of their insertion order, and once
\* more than 50 have been added the oldest ones are the ones dropped.
C19_HistoryCappedNewestFirst ==
    /\ [](LET h == state.gameHistory
          IN  /\ Len(h) <= HistoryCap
              /\ \A i \in 1..(Len(h) - 1) : h[i].id = h[i + 1].id + 1
              /\ Len(h) < HistoryCap => (h = <<>> \/ h[Len(h)].id = 1))
    /\ [][EndGame =>
             /\ state'.gameHistory # <<>>
             /\ state'.gameHistory[1].id = nextGameId(state.gameHistory)]_vars

\* more games have been ended than the history keeps: the two oldest results
\* are gone
C19_Witness ==
    /\ Len(state.gameHistory) = HistoryCap
    /\ state.gameHistory[1].id = HistoryCap + 2
    /\ state.gameHistory[HistoryCap].id = 3

-----------------------------------------------------------------------------
(* The ghosts of a merge: HomeScreen (index.js) and PieceMergeDraw *)

TileSize == (BoardSize - GridSpacing * (N + 1)) \div N

cellPosition(x) == GridSpacing + x * (TileSize + GridSpacing)
toX(col) == cellPosition(col)
toY(row) == cellPosition(row)

getPreMergePos(dest, direction) ==
    CASE direction = "left"  -> [r |-> dest.r, c |-> dest.c + 1]
      [] direction = "right" -> [r |-> dest.r, c |-> dest.c - 1]
      [] direction = "up"    -> [r |-> dest.r + 1, c |-> dest.c]
      [] direction = "down"  -> [r |-> dest.r - 1, c |-> dest.c]
      [] OTHER -> dest

\* the cell of index j, counted from the wall, in line fixedIndex
cellToward(direction, fixedIndex, j) ==
    CASE direction = "left"  -> [r |-> fixedIndex, c |-> j]
      [] direction = "right" -> [r |-> fixedIndex, c |-> N - 1 - j]
      [] direction = "up"    -> [r |-> j, c |-> fixedIndex]
      [] direction = "down"  -> [r |-> N - 1 - j, c |-> fixedIndex]

\* the merge group computeMergeGroups pushes for two tiles of line
\* fixedIndex, the tiles being at the indices a and b counted from the wall
\* and merging into the cell of index destIndex
mergeGroup(direction, fixedIndex, destIndex, a, b) ==
    LET dest == cellToward(direction, fixedIndex, destIndex)
    IN  [fromA |-> cellToward(direction, fixedIndex, a),
         fromB |-> cellToward(direction, fixedIndex, b),
         dest  |-> dest,
         pre   |-> getPreMergePos(dest, direction)]

MergeGroups ==
    { mergeGroup(q[1], q[2], q[3], q[4], q[5]) :
        q \in { q \in Directions \X (0..(N - 1)) \X (0..(N - 2))
                       \X (0..(N - 2)) \X (1..(N - 1)) :
                  q[3] <= q[4] /\ q[4] < q[5] } }

\* a value as a fraction num / den
Frac(num, den) == [num |-> num, den |-> den]

\* Animated's interpolate with extrapolate: 'clamp', at the progress
\* frame / Frames; the input range is given in hundredths
RECURSIVE interpolate(_, _, _)
interpolate(inputRange, outputRange, frame) ==
    IF 100 * frame <= inputRange[1] * Frames THEN Frac(outputRange[1], 1)
    ELSE IF Len(inputRange) = 1 THEN Frac(outputRange[1], 1)
    ELSE IF 100 * frame <= inputRange[2] * Frames
         THEN Frac(outputRange[1] * (inputRange[2] - inputRange[1]) * Frames
                     + (outputRange[2] - outputRange[1])
                       * (100 * frame - inputRange[1] * Frames),
                   (inputRange[2] - inputRange[1]) * Frames)
         ELSE interpolate(Tail(inputRange), Tail(outputRange), frame)

\* the old ghost of the tile at from: animX, animY
oldGhostX(from, pre, frame) ==
    interpolate(<<0, 50, 100>>, <<toX(from.c), toX(pre.c), toX(pre.c)>>, frame)
oldGhostY(from, pre, frame) ==
    interpolate(<<0, 50, 100>>, <<toY(from.r), toY(pre.r), toY(pre.r)>>, frame)

\* the new ghost (the merged tile): animOpacity
newGhostOpacity(frame) == interpolate(<<25, 40>>, <<0, 1>>, frame)

\* PieceMergeDraw.play: the timing of trA / trB from the source cell to pre,
\* duration half = duration / 2, Easing.out(Easing.cubic), at the time
\* duration * frame / Frames: from + (pre - from) * (1 - (1 - t / half)^3)
trOld(from, pre, frame) ==
    LET left == IF 2 * frame >= Frames THEN 0 ELSE Frames - 2 * frame
        den  == Frames * Frames * Frames
    IN  Frac(from * den + (pre - from) * (den - left * left * left), den)

\* PieceMergeDraw.play: fadeInNew has left its start value 0, which it does
\* once its delay half * 0.5 is over (t > duration / 4)
opNewPositive(frame) == 4 * frame > Frames

Is(frac, v) == frac.num = v * frac.den
Positive(frac) == frac.num * frac.den > 0

InitGhosts ==
    /\ argBoard = createEmptyBoard
    /\ argDirection = "left"
    /\ call = "none"
    /\ ret = NoResult
    /\ HomeMounted
    /\ ProviderMounted({[kind |-> "missing", data |-> <<>>]})
    /\ \E group \in MergeGroups :
          mergeAnim = [group |-> group, slideFrame |-> 0, playFrame |-> 0]
    /\ slide = NoSlide
    /\ InForeground

\* Animated.timing(slideProgress, { toValue: 1 }) has advanced by a frame
SlideFrame ==
    /\ mergeAnim.slideFrame < Frames
    /\ mergeAnim' = [mergeAnim EXCEPT !.slideFrame = @ + 1]
    /\ UNCHANGED <<logicVars, homeVars, bootVars, slide, appVars>>

\* the Animated.parallel of PieceMergeDraw.play has advanced by a frame
PlayFrame ==
    /\ mergeAnim.playFrame < Frames
    /\ mergeAnim' = [mergeAnim EXCEPT !.playFrame = @ + 1]
    /\ UNCHANGED <<logicVars, homeVars, bootVars, slide, appVars>>

NextGhosts == SlideFrame \/ PlayFrame

SpecGhosts == InitGhosts /\ [][NextGhosts]_vars

\* C13: during the animation of a merge the tile showing the merged value is
\* not visible (opacity above zero) before both source tiles have reached the
\* collision point: whenever the merged ghost has an opacity greater than 0,
\* both old ghosts are at the position of the collision point.
C13_MergedGhostAfterCollision ==
    LET g == mergeAnim.group
        k == mergeAnim.slideFrame
        t == mergeAnim.playFrame
    IN  g # <<>> =>
          /\ Positive(newGhostOpacity(k)) =>
                /\ Is(oldGhostX(g.fromA, g.pre, k), toX(g.pre.c))
                /\ Is(oldGhostY(g.fromA, g.pre, k), toY(g.pre.r))
                /\ Is(oldGhostX(g.fromB, g.pre, k), toX(g.pre.c))
                /\ Is(oldGhostY(g.fromB, g.pre, k), toY(g.pre.r))
          /\ opNewPositive(t) =>
                /\ Is(trOld(toX(g.fromA.c), toX(g.pre.c), t), toX(g.pre.c))
                /\ Is(trOld(toY(g.fromA.r), toY(g.pre.r), t), toY(g.pre.r))
                /\ Is(trOld(toX(g.fromB.c), toX(g.pre.c), t), toX(g.pre.c))
                /\ Is(trOld(toY(g.fromB.r), toY(g.pre.r), t), toY(g.pre.r))

-----------------------------------------------------------------------------
(* Claims about start-up *)

\* the session holds the default values
HoldsDefaults(s) ==
    /\ s.gameHistory = <<>>
    /\ s.bestScore = 0
    /\ s.maxLevel = 0
    /\ s.maxScore = 0
    /\ s.maxTime = 0

\* C20: start-up never blocks on persistence: whether the stored snapshot is
\* present, missing, unparsable or its read fails, initializeApp eventually
\* dispatches INITIALIZE_APP and isLoading becomes false, and on a failed or
\* missing read the session then holds the default values (empty history,
\* zero best score and statistics).
C20_StartupNeverBlocks ==
    /\ <>(boot = "done" /\ ~state.isLoading)
    /\ [][(boot # "done" /\ boot' = "done") =>
             /\ ~state'.isLoading
             /\ stored.kind # "present" => HoldsDefaults(state')]_vars

\* the read of the stored record was rejected and the app has started with
\* the defaults
C20_Witness ==
    /\ stored.kind = "failed"
    /\ boot = "done"
    /\ ~state.isLoading
    /\ HoldsDefaults(state)

-----------------------------------------------------------------------------
(* The slide of an accepted move (app/(tabs)/index.js, first HomeScreen) *)

\* a game in progress with the given board and score
Playing(board, score) ==
    [initialState EXCEPT !.board = board, !.score = score, !.bestScore = score,
                         !.showOnboarding = FALSE, !.isLoading = FALSE]

\* what the switch of move resolves on the boards of a new game, for the
\* directions that change the board: the board before, newBoard, totalScore
ResolvedMoves ==
    { [prev  |-> q[1],
       board |-> moveSwitch(q[1], q[2]).board,
       score |-> moveSwitch(q[1], q[2]).score] :
        q \in {p \in NewGameBoards \X Directions : ChangesBoard(p[1], p[2])} }

\* handleMove has resolved a valid move on the board of a new game and has
\* got past its await: SET_ANIMATING true and UPDATE_SCORE are dispatched,
\* newTileTimer is set and the timing of slideProgress is started
InitSlide ==
    /\ argBoard = createEmptyBoard
    /\ argDirection = "left"
    /\ call = "none"
    /\ ret = NoResult
    /\ stored = [kind |-> "missing", data |-> <<>>]
    /\ boot = "done"
    /\ disk = <<>>
    /\ setDataCalls = <<>>
    /\ \E m \in ResolvedMoves :
          /\ state = [Playing(m.prev, m.score) EXCEPT !.isAnimating = TRUE]
          /\ slide = [board |-> m.board, frame |-> 0, timer |-> "pending",
                      running |-> TRUE, spawns |-> <<>>]
    /\ moveCount = 0
    /\ animationPhase = "idle"
    /\ rendered = [state |-> state, animationPhase |-> "idle", moveCount |-> 0]
    /\ animation = JSFalse
    /\ handled = "accepted"
    /\ mergeAnim = NoMergeAnim
    /\ InForeground

\* Animated.timing(slideProgress, { toValue: 1, duration: SLIDE_MS }) has
\* advanced by a frame
SlideAdvances ==
    /\ slide.running
    /\ slide.frame < Frames
    /\ slide' = [slide EXCEPT !.frame = @ + 1]
    /\ UNCHANGED <<logicVars, homeVars, bootVars, mergeAnim, appVars>>

\* the callback of newTileTimer, due SLIDE_MS * 0.9 after the start of the
\* slide: addRandomTile(result.board), SET_BOARD
NewTileTimer ==
    /\ slide.timer = "pending"
    /\ 10 * slide.frame >= 9 * Frames
    /\ \E pick \in HomePicks(slide.board), value \in SpawnValues, id \in NanoIds :
          LET boardWithNewTile == addRandomTile(slide.board, pick, value, id)
          IN  /\ state' = gameReducer(state, "SET_BOARD", boardWithNewTile)
              /\ slide' = [slide EXCEPT !.timer = "fired",
                                        !.spawns = Append(@, boardWithNewTile)]
    /\ UNCHANGED <<moveCount, animationPhase, rendered, animation, handled,
                   logicVars, bootVars, mergeAnim, appVars>>

\* the completion callback of the slide: clearTimeout(newTileTimer),
\* addRandomTile(result.board), SET_BOARD, SET_ANIMATING false, the move count
\* and the win / game-over decision on the state handleMove was called with
\* (gameState 'playing')
SlideCompletes ==
    /\ slide.running
    /\ slide.frame = Frames
    /\ \E pick \in HomePicks(slide.board), value \in SpawnValues, id \in NanoIds :
          LET boardWithNewTile == addRandomTile(slide.board, pick, value, id)
              committed == gameReducer(gameReducer(state, "SET_BOARD", boardWithNewTile),
                                       "SET_ANIMATING", FALSE)
              over == checkGameOver(boardWithNewTile)
          IN  /\ slide' = [slide EXCEPT !.running = FALSE,
                                        !.timer = IF @ = "pending" THEN "cleared" ELSE @,
                                        !.spawns = Append(@, boardWithNewTile)]
              /\ IF checkWin(boardWithNewTile)
                 THEN /\ state' = gameReducer(committed, "SET_GAME_STATE", "won")
                      /\ alert' = "win"
                 ELSE IF ~over.threw /\ over.value
                 THEN /\ state' = gameReducer(committed, "SET_GAME_STATE", "lost")
                      /\ alert' = "lose"
                 ELSE /\ state' = committed
                      /\ alert' = alert
    /\ moveCount' = moveCount + 1
    /\ UNCHANGED <<animationPhase, rendered, animation, handled,
                   logicVars, bootVars, mergeAnim, appState, savedStateRef>>

NextSlide == SlideAdvances \/ NewTileTimer \/ SlideCompletes

SpecSlide == InitSlide /\ [][NextSlide]_vars

NoSpawnWhileSliding == slide.running => state.board \notin {slide.spawns[i] : i \in DOMAIN slide.spawns}
OneSpawnForAMove == ~slide.running => Len(slide.spawns) <= 1
ShownTileStays == ~slide.running => \A i \in DOMAIN slide.spawns : DiffCells(slide.spawns[i], state.board) = {}

-----------------------------------------------------------------------------
(* A move in flight, background and foreground, the profile screen
   (HomeScreen of unnamed/part_000, app/(tabs)/profile.js) *)

\* the first rows of the boards a move is in flight on: a merge of two spawn
\* values, a slide without a merge, the merge that makes the win value, and a
\* merge next to a win value already there
PlayRows ==
    { <<SpawnLow, SpawnLow, 0, 0>>,
      <<SpawnLow, SpawnHigh, 0, 0>>,
      <<WinValue \div 2, WinValue \div 2, 0, 0>>,
      <<WinValue, SpawnLow, SpawnLow, 0>> }

PlayBoards == { TilesOf(<<L, ZeroLine, ZeroLine, ZeroLine>>) : L \in PlayRows }

\* the moves in flight: the state handleMove was called with (hasWon is true
\* when the win value is on the board) and what the switch of move resolves
MovesOn(boards) ==
    { [state |-> [Playing(q[1], 0) EXCEPT !.hasWon = checkWin(q[1])],
       board |-> moveSwitch(q[1], q[2]).board,
       newScore |-> moveSwitch(q[1], q[2]).score,
       pending |-> "completion"] :
        q \in {p \in boards \X Directions : ChangesBoard(p[1], p[2])} }

MovesInFlight == MovesOn(PlayBoards)

\* handleMove has resolved a valid move: setAnimationPhase('animating') and
\* UPDATE_SCORE are done, the animations are started, and React has not
\* rendered yet
MoveAccepted(moves) ==
    /\ argBoard = createEmptyBoard
    /\ argDirection = "left"
    /\ call = "none"
    /\ ret = NoResult
    /\ stored = [kind |-> "missing", data |-> <<>>]
    /\ boot = "done"
    /\ disk = <<>>
    /\ setDataCalls = <<>>
    /\ animation \in moves
    /\ state = gameReducer(gameReducer(animation.state, "SET_ANIMATING", TRUE),
                           "UPDATE_SCORE", animation.newScore)
    /\ moveCount = 0
    /\ animationPhase = "animating"
    /\ rendered = [state |-> animation.state, animationPhase |-> "idle", moveCount |-> 0]
    /\ handled = "accepted"
    /\ mergeAnim = NoMergeAnim
    /\ slide = NoSlide
    /\ InForeground

InitPlay == MoveAccepted(MovesInFlight)

\* the completion callback of Animated.parallel: addRandomTile(result.board)
\* and SET_BOARD; the rest is left to the next frame
AnimationCompletes ==
    /\ animation # JSFalse
    /\ animation.pending = "completion"
    /\ \E pick \in HomePicks(animation.board), value \in SpawnValues, id \in NanoIds :
          LET boardWithNewTile == addRandomTile(animation.board, pick, value, id)
          IN  /\ state' = gameReducer(state, "SET_BOARD", boardWithNewTile)
              /\ animation' = [animation EXCEPT !.board = boardWithNewTile,
                                                !.pending = "frame"]
    /\ UNCHANGED <<moveCount, animationPhase, rendered, handled, outsideHome>>

\* the requestAnimationFrame callback of the completion: setAnimationPhase
\* ('idle'), SET_ANIMATING false, the move count, and the win / game-over
\* decision on the state handleMove was called with.  An exception raised by
\* checkGameOver ends the callback after the updates made so far.
NextFrame ==
    /\ animation # JSFalse
    /\ animation.pending = "frame"
    /\ animationPhase' = "idle"
    /\ moveCount' = moveCount + 1
    /\ LET boardWithNewTile == animation.board
           idle == gameReducer(state, "SET_ANIMATING", FALSE)
           over == checkGameOver(boardWithNewTile)
       IN  IF /\ checkWin(boardWithNewTile)
              /\ animation.state.gameState = "playing"
              /\ ~animation.state.hasWon
           THEN /\ state' = gameReducer(gameReducer(idle, "SET_GAME_STATE", "won"),
                                        "SET_HAS_WON", TRUE)
                /\ alert' = "win"
           ELSE IF ~over.threw /\ over.value
           THEN /\ state' = gameReducer(idle, "SET_GAME_STATE", "lost")
                /\ alert' = "lose"
           ELSE /\ state' = idle
                /\ alert' = alert
    /\ animation' = [animation EXCEPT !.pending = "none"]
    /\ UNCHANGED <<rendered, handled, logicVars, bootVars, mergeAnim, slide,
                   appState, savedStateRef>>

\* the snapshot the AppState listener takes of latestStateRef.current and
\* latestMoveCountRef.current, which the effects of the last render have set
snapshot ==
    [board     |-> rendered.state.board,
     score     |-> rendered.state.score,
     bestScore |-> rendered.state.bestScore,
     gameState |-> rendered.state.gameState,
     hasWon    |-> rendered.state.hasWon,
     moveCount |-> rendered.moveCount]

\* AppState changes to 'inactive' or 'background': the snapshot is taken
AppBackground ==
    /\ \E nextAppState \in {"inactive", "background"} :
          /\ nextAppState # appState
          /\ appState # "background"
          /\ appState' = nextAppState
    /\ savedStateRef' = snapshot
    /\ UNCHANGED <<homeVars, logicVars, bootVars, mergeAnim, slide, alert>>

\* AppState changes to 'active': the snapshot, when there is one, is restored
AppActive ==
    /\ appState # "active"
    /\ appState' = "active"
    /\ IF savedStateRef # JSFalse
       THEN /\ state' = gameReducer(gameReducer(gameReducer(gameReducer(state,
                            "SET_BOARD", savedStateRef.board),
                            "UPDATE_SCORE", savedStateRef.score),
                            "SET_GAME_STATE", savedStateRef.gameState),
                            "SET_HAS_WON", savedStateRef.hasWon)
            /\ moveCount' = savedStateRef.moveCount
       ELSE UNCHANGED <<state, moveCount>>
    /\ UNCHANGED <<animationPhase, rendered, animation, handled,
                   logicVars, bootVars, mergeAnim, slide, savedStateRef, alert>>

\* 'Continue' of the win dialog
ContinuePlaying ==
    /\ appState = "active"
    /\ alert = "win"
    /\ state' = gameReducer(state, "SET_GAME_STATE", "playing")
    /\ alert' = "none"
    /\ UNCHANGED <<moveCount, animationPhase, rendered, animation, handled,
                   logicVars, bootVars, mergeAnim, slide, appState, savedStateRef>>

\* 'Reset' of resetLocalBest on the profile screen: UPDATE_STATS with zeros,
\* UPDATE_SCORE 0; the handler then waits for saveGameData(resetStats)
ResetLocalBest ==
    /\ appState = "active"
    /\ alert = "none"
    /\ state' = gameReducer(gameReducer(state, "UPDATE_STATS",
                                [maxLevel |-> 0, maxScore |-> 0, maxTime |-> 0]),
                            "UPDATE_SCORE", 0)
    /\ alert' = "resetSaving"
    /\ UNCHANGED <<moveCount, animationPhase, rendered, animation, handled,
                   logicVars, bootVars, mergeAnim, slide, appState, savedStateRef>>

\* saveGameData has settled (it catches its errors): the 'Reset Complete'
\* Alert is shown
ResetSaved ==
    /\ alert = "resetSaving"
    /\ alert' = "resetComplete"
    /\ UNCHANGED <<homeVars, logicVars, bootVars, mergeAnim, slide, appState,
                   savedStateRef>>

\* the 'Reset Complete' Alert is dismissed
DismissResetComplete ==
    /\ alert = "resetComplete"
    /\ alert' = "none"
    /\ UNCHANGED <<homeVars, logicVars, bootVars, mergeAnim, slide, appState,
                   savedStateRef>>

\* getHighestTile: the largest value on the board, 0 on an empty board
getHighestTile(board) ==
    CHOOSE highest \in {board[r][c].value : r \in Idx, c \in Idx} :
        \A r \in Idx, c \in Idx : board[r][c].value <= highest

\* 'New Game' of the win dialog: endGame(state.board, state.score, true) on
\* the state showWinModal has closed over, which is the state handleMove was
\* called with; endGame then waits for saveGameData
NewGameAfterWin ==
    /\ appState = "active"
    /\ alert = "win"
    /\ LET closed == animation.state
           stats == [maxLevel |-> Max(closed.maxLevel, getHighestTile(closed.board)),
                     maxScore |-> Max(closed.maxScore, closed.score),
                     maxTime  |-> closed.maxTime]
           gameResult == [id |-> nextGameId(closed.gameHistory)]
       IN  state' = gameReducer(gameReducer(state, "UPDATE_STATS", stats),
                                "ADD_GAME_TO_HISTORY", gameResult)
    /\ alert' = "saving"
    /\ UNCHANGED <<moveCount, animationPhase, rendered, animation, handled,
                   logicVars, bootVars, mergeAnim, slide, appState, savedStateRef>>

\* saveGameData has settled (it catches its errors): startNewGame
StartAfterSave ==
    /\ alert = "saving"
    /\ alert' = "none"
    /\ StartNewGameState


\* a swipe on the board
Swipe ==
    /\ appState = "active"
    /\ alert = "none"
    /\ SwipeRelease

NextPlay ==
    \/ Render
    \/ AnimationCompletes
    \/ NextFrame
    \/ AppBackground
    \/ AppActive
    \/ ContinuePlaying
    \/ ResetLocalBest
    \/ ResetSaved
    \/ DismissResetComplete
    \/ NewGameAfterWin
    \/ StartAfterSave
    \/ Swipe

SpecPlay == InitPlay /\ [][NextPlay]_vars

-----------------------------------------------------------------------------
(* Claims about a move in flight, background and foreground *)

WonGameStaysQuiet ==
    [][(state.hasWon /\ state'.hasWon)
          => /\ state.gameState # "won" => state'.gameState # "won"
             /\ alert # "win" => alert' # "win"]_vars

\* a move on a board holding the win value has completed in a game that was
\* won before
WonGameMoveCompleted ==
    /\ animation # JSFalse
    /\ animation.pending = "none"
    /\ animation.state.hasWon
    /\ checkWin(animation.board)

-----------------------------------------------------------------------------
(* Claims about tile identities and compaction *)

\* the tileIds of the tiles of a line
IdsOf(row) == {row[k].tileId : k \in {j \in DOMAIN row : row[j] # Null}}

\* C21: tile identities follow the spawn/slide/merge rule: in the line
\* moveRowLeft returns, every tile is either a tile of the input line that
\* slid (same tileId, same value) or a merged tile whose tileId is new, that
\* is, differs from the tileIds of all tiles of the input line; and no two
\* tiles of the returned line share a tileId.
C21_MergeMakesNewIdentity ==
    call = "moveRowLeft" =>
        LET in  == argBoard[1]
            out == ret.row
        IN  /\ \A j \in DOMAIN out :
                  out[j] # Null =>
                     \/ \E i \in DOMAIN in : in[i] # Null /\ in[i].tileId = out[j].tileId
                                             /\ in[i].value = out[j].value
                     \/ out[j].tileId \notin IdsOf(in)
            /\ \A j, k \in DOMAIN out :
                  (out[j] # Null /\ out[k] # Null /\ j # k) => out[j].tileId # out[k].tileId

\* the part of C21 about tiles that only slide, and the uniqueness, on their
\* own: a line without equal neighbours keeps its tiles, identities included
SlidTilesKeepIdentity ==
    call = "moveRowLeft" =>
        LET in  == SelectSeq(argBoard[1], NotNull)
            out == SelectSeq(ret.row, NotNull)
        IN  /\ ret.score = 0 => out = in
            /\ \A j, k \in DOMAIN out : j # k => out[j].tileId # out[k].tileId

\* no empty cell lies before a tile in a line read from the wall
Packed(line) == \A j \in 1..(N - 1) : line[j] = Null => line[j + 1] = Null

\* the tileIds of the tiles of a line, in the order of the line
IdSeq(line) ==
    LET tiles == SelectSeq(line, NotNull)
    IN  [j \in 1..Len(tiles) |-> tiles[j].tileId]

\* a is b with some of its entries left out
RECURSIVE IsSubSeq(_, _)
IsSubSeq(a, b) ==
    IF a = <<>> THEN TRUE
    ELSE IF b = <<>> THEN FALSE
    ELSE IF a[1] = b[1] THEN IsSubSeq(Tail(a), Tail(b))
    ELSE IsSubSeq(a, Tail(b))

\* every line of `after` is packed against the wall of the direction and its
\* tiles are tiles of the same line of `before`, in the same order
PackedToward(before, after, direction) ==
    \A k \in Idx :
        /\ Packed(LineToward(after, direction, k))
        /\ IsSubSeq(IdSeq(LineToward(after, direction, k)),
                    IdSeq(LineToward(before, direction, k)))

\* C28: for every board and every direction move returns a board in which
\* the tiles of each line are contiguous against the wall of the direction
\* of travel (left: column 0, right: column 3, up: row 0, down: row 3), with
\* no empty cell between a tile and that wall, the surviving tiles in the
\* order they had.
C28_MovePacksTowardWall ==
    call = "move" =>
        /\ ~ret.threw
        /\ PackedToward(argBoard, ret.board, argDirection)

\* the same for newBoard of the switch of move, before updateTilePositions
SwitchPacksTowardWall ==
    call = "move" =>
        PackedToward(argBoard, moveSwitch(argBoard, argDirection).board, argDirection)

-----------------------------------------------------------------------------
(* The profile screen next to the Home screen *)

NextProfile ==
    \/ NextHome
    \/ ResetLocalBest
    \/ ResetSaved
    \/ DismissResetComplete

SpecProfile == InitStartup /\ [][NextProfile]_vars

\* C25: after the player has confirmed 'Reset Local Best', the statistics
\* maxLevel, maxScore and maxTime are all 0 and bestScore is 0, whatever
\* they were before: they are 0 when the 'Reset Complete' Alert is shown.
C25_ResetClearsStatistics ==
    alert = "resetComplete" =>
        /\ state.maxLevel = 0
        /\ state.maxScore = 0
        /\ state.maxTime = 0
        /\ state.bestScore = 0

-----------------------------------------------------------------------------
(* Claims about the merge groups *)

\* how many cells lie between a cell and the wall the direction points to
DistToWall(cell, direction) ==
    CASE direction = "left"  -> cell.c
      [] direction = "right" -> N - 1 - cell.c
      [] direction = "up"    -> cell.r
      [] direction = "down"  -> N - 1 - cell.r

\* the two cells are in one line of the direction
SameLine(cell1, cell2, direction) ==
    IF direction \in {"left", "right"} THEN cell1.r = cell2.r ELSE cell1.c = cell2.c

InsideBoard(cell) == cell.r \in 0..(N - 1) /\ cell.c \in 0..(N - 1)

\* the collision point of the group is the destination cell offset by one
\* cell opposite to the direction of travel, and lies inside the board
PreIsNextToDest(g, direction) ==
    /\ SameLine(g.pre, g.dest, direction)
    /\ DistToWall(g.pre, direction) = DistToWall(g.dest, direction) + 1
    /\ InsideBoard(g.pre)

\* no source cell lies closer to the wall than the collision point
SourcesBehindPre(g, direction) ==
    /\ DistToWall(g.fromA, direction) >= DistToWall(g.pre, direction)
    /\ DistToWall(g.fromB, direction) >= DistToWall(g.pre, direction)

\* the directions in which computeMergeGroups builds the group
DirectionsOf(g) ==
    { direction \in Directions :
        \E fixedIndex \in 0..(N - 1), destIndex \in 0..(N - 2),
           a \in 0..(N - 2), b \in 1..(N - 1) :
            destIndex <= a /\ a < b /\ g = mergeGroup(direction, fixedIndex, destIndex, a, b) }

CollisionPointNextToDest ==
    mergeAnim.group # <<>> =>
        /\ DirectionsOf(mergeAnim.group) # {}
        /\ \A direction \in DirectionsOf(mergeAnim.group) :
              PreIsNextToDest(mergeAnim.group, direction)

-----------------------------------------------------------------------------
(* StorageUtils.setData *)

\* what saveGameData is called with: the new best score of a move, the
\* statistics and history of endGame, and the onboarding flag
SavedRecords ==
    { [maxScore |-> MaxStoredScore],
      [maxLevel |-> SpawnHigh, maxScore |-> MaxStoredScore, maxTime |-> 0,
       gameHistory |-> <<[id |-> 1]>>],
      [hasSeenOnboarding |-> TRUE] }

InitStorage ==
    /\ argBoard = createEmptyBoard
    /\ argDirection = "left"
    /\ call = "none"
    /\ ret = NoResult
    /\ Started
    /\ mergeAnim = NoMergeAnim
    /\ slide = NoSlide
    /\ InForeground

\* saveGameData(newData): setData is called and waits for getData, that is
\* for AsyncStorage.getItem
SetDataCalled ==
    /\ Len(setDataCalls) < MaxCalls
    /\ \E newData \in SavedRecords :
          setDataCalls' = Append(setDataCalls,
                                 [newData |-> newData, pc |-> "getItem", mergedData |-> <<>>])
    /\ UNCHANGED <<stored, boot, disk, homeVars, logicVars, otherVars>>

\* the read of a call settles: mergedData is oldData with newData spread over
\* it, or newData when there is no old record; the call waits for setItem
GetItemSettles ==
    /\ \E k \in DOMAIN setDataCalls :
          /\ setDataCalls[k].pc = "getItem"
          /\ LET oldData == disk
                 newData == setDataCalls[k].newData
                 mergedData == IF oldData # <<>> THEN Spread(oldData, newData) ELSE newData
             IN  setDataCalls' = [setDataCalls EXCEPT ![k].pc = "setItem",
                                                     ![k].mergedData = mergedData]
    /\ UNCHANGED <<stored, boot, disk, homeVars, logicVars, otherVars>>

\* the write of a call settles: the record is replaced by mergedData
SetItemSettles ==
    /\ \E k \in DOMAIN setDataCalls :
          /\ setDataCalls[k].pc = "setItem"
          /\ disk' = setDataCalls[k].mergedData
          /\ setDataCalls' = [setDataCalls EXCEPT ![k].pc = "done"]
    /\ UNCHANGED <<stored, boot, homeVars, logicVars, otherVars>>

NextStorage == SetDataCalled \/ GetItemSettles \/ SetItemSettles

SpecStorage == InitStorage /\ [][NextStorage]_vars

\* the last of the calls made that wrote the field
LastWriter(field) ==
    CHOOSE k \in DOMAIN setDataCalls :
        /\ field \in DOMAIN setDataCalls[k].newData
        /\ \A j \in DOMAIN setDataCalls :
              field \in DOMAIN setDataCalls[j].newData => j <= k

\* C27: StorageUtils.setData loses no update: once all the setData calls
\* made have completed, overlapping ones included, the stored record holds
\* every field written by every call, each with the value of the last call
\* that wrote it.
C27_SetDataLosesNoUpdate ==
    (\A k \in DOMAIN setDataCalls : setDataCalls[k].pc = "done") =>
        \A k \in DOMAIN setDataCalls :
            \A field \in DOMAIN setDataCalls[k].newData :
                /\ field \in DOMAIN disk
                /\ disk[field] = setDataCalls[LastWriter(field)].newData[field]

-----------------------------------------------------------------------------
(* The Grid engine of the second HomeScreen of index.js *)

GridIdx == 0..(N - 1)

\* Grid.cells[x][y] holding the values of a board; a tile is drawn at
\* left: toX(tile.y), top: toY(tile.x), so x is the row and y the column
gridOfBoard(board) ==
    [x \in GridIdx |-> [y \in GridIdx |->
        [value |-> board[x + 1][y + 1].value, mergedFrom |-> FALSE]]]

\* the cell values of a grid as the rows and columns they are drawn in
boardOfGrid(grid) == [r \in Idx |-> [c \in Idx |-> grid[r - 1][c - 1].value]]

\* the direction vectors
directions(direction) ==
    CASE direction = "up"    -> [x |-> 0, y |-> -1]
      [] direction = "right" -> [x |-> 1, y |-> 0]
      [] direction = "down"  -> [x |-> 0, y |-> 1]
      [] direction = "left"  -> [x |-> -1, y |-> 0]

\* traversals.x and traversals.y, reversed for a vector component of 1
buildTraversals(vector) ==
    LET forward  == [k \in 1..N |-> k - 1]
    IN  [x |-> IF vector.x = 1 THEN Reverse(forward) ELSE forward,
         y |-> IF vector.y = 1 THEN Reverse(forward) ELSE forward]

withinBounds(cell) == cell.x \in GridIdx /\ cell.y \in GridIdx

cellAvailable(grid, cell) == grid[cell.x][cell.y].value = 0

\* findFarthestPosition: step along the vector while the cell is inside the
\* grid and free
RECURSIVE findFarthestPosition(_, _, _)
findFarthestPosition(grid, cell, vector) ==
    LET step == [x |-> cell.x + vector.x, y |-> cell.y + vector.y]
    IN  IF withinBounds(step) /\ cellAvailable(grid, step)
        THEN findFarthestPosition(grid, step, vector)
        ELSE [farthest |-> cell, next |-> step]

NoTile == [value |-> 0, mergedFrom |-> FALSE]

\* the body of the traversal for one cell: merge into the next tile when it
\* has the same value and is not a merged tile of this move, otherwise move
\* the tile to the farthest free cell
moveCell(acc, cell, vector) ==
    LET grid == acc.grid
        tile == grid[cell.x][cell.y]
    IN  IF tile.value = 0 THEN acc
        ELSE LET positions == findFarthestPosition(grid, cell, vector)
                 hasNext   == withinBounds(positions.next)
                 next      == IF hasNext THEN grid[positions.next.x][positions.next.y]
                              ELSE NoTile
             IN  IF hasNext /\ next.value = tile.value /\ ~next.mergedFrom
                 THEN [grid  |-> [[grid EXCEPT ![positions.next.x][positions.next.y] =
                                        [value |-> tile.value * 2, mergedFrom |-> TRUE]]
                                     EXCEPT ![cell.x][cell.y] = NoTile],
                       score |-> acc.score + tile.value * 2]
                 ELSE [grid  |-> [[grid EXCEPT ![cell.x][cell.y] = NoTile]
                                     EXCEPT ![positions.farthest.x][positions.farthest.y] =
                                        tile],
                       score |-> acc.score]

\* traversals.x.forEach(x => traversals.y.forEach(y => ...)), from cell k on
RECURSIVE traverse(_, _, _, _)
traverse(acc, traversals, vector, k) ==
    IF k >= N * N THEN acc
    ELSE traverse(moveCell(acc, [x |-> traversals.x[(k \div N) + 1],
                                 y |-> traversals.y[(k % N) + 1]], vector),
                  traversals, vector, k + 1)

\* one move of the Grid engine on the values of a board: the cell values it
\* leaves and scoreIncrease
gridMove(board, direction) ==
    LET vector == directions(direction)
        done   == traverse([grid |-> gridOfBoard(board), score |-> 0],
                           buildTraversals(vector), vector, 0)
    IN  [board |-> boardOfGrid(done.grid), score |-> done.score]

\* the direction whose wall is the one the Grid engine moves the tiles to
\* when rows and columns are exchanged
Exchanged(direction) ==
    CASE direction = "left"  -> "up"
      [] direction = "up"    -> "left"
      [] direction = "right" -> "down"
      [] direction = "down"  -> "right"

\* C29: the Grid engine and the line-reduction engine agree: for every board
\* and each of the direction symbols left, right, up and down, one Grid
\* traversal move leaves the same cell values in the same rows and columns,
\* and the same score increase, as move(board, direction) of GameLogic.
C29_GridAgreesWithMove ==
    call = "move" =>
        /\ ~ret.threw
        /\ ValuesOf(ret.board) = gridMove(argBoard, argDirection).board
        /\ ret.score = gridMove(argBoard, argDirection).score

\* C29 read against the switch of move, before updateTilePositions
GridAgreesWithSwitch ==
    call = "move" =>
        LET res == moveSwitch(argBoard, argDirection)
        IN  /\ ValuesOf(res.board) = gridMove(argBoard, argDirection).board
            /\ res.score = gridMove(argBoard, argDirection).score

\* what holds instead: the Grid engine moved by a symbol does what the switch
\* of move does for the symbol with rows and columns exchanged
GridAgreesExchanged ==
    call = "move" =>
        LET res == moveSwitch(argBoard, Exchanged(argDirection))
        IN  /\ ValuesOf(res.board) = gridMove(argBoard, argDirection).board
            /\ res.score = gridMove(argBoard, argDirection).score

-----------------------------------------------------------------------------
(* Claims about a move in flight and the events around it *)

\* the completion callback of the move in flight has committed its board
\* and that board is the one the state holds
MoveCommitted ==
    /\ animation # JSFalse
    /\ animation.pending # "completion"
    /\ state.board = animation.board

NewGameButton ==
    /\ appState = "active"
    /\ alert = "none"
    /\ StartNewGame

NextNewGame ==
    \/ Render
    \/ AnimationCompletes
    \/ NextFrame
    \/ NewGameButton

\* a move in flight and the New Game button
SpecNewGame == InitPlay /\ [][NextNewGame]_vars

\* NEW_GAME has replaced the board the move in flight was accepted on
NewGameStarted ==
    /\ animation # JSFalse
    /\ state.board \in NewGameBoards
    /\ state.board # animation.state.board

-----------------------------------------------------------------------------
(* The move that fills the board *)

\* boards with one empty cell on which a move to the left and a spawned
\* SpawnHigh leave no empty cell and no equal neighbours: the first without
\* a merge, the second with the merge that makes the win value
DeadEndBoards ==
    LET A == <<SpawnHigh, SpawnLow, SpawnHigh, SpawnLow>>
        B == <<SpawnLow, SpawnHigh, SpawnLow, SpawnHigh>>
    IN  { TilesOf(<<L, A, B, A>>) :
            L \in { <<0, SpawnLow, SpawnHigh, SpawnLow>>,
                    <<WinValue \div 2, WinValue \div 2, SpawnHigh, SpawnLow>> } }

InitDeadEnd == MoveAccepted(MovesOn(PlayBoards \cup DeadEndBoards))

NextDeadEnd ==
    \/ Render
    \/ AnimationCompletes
    \/ NextFrame
    \/ ContinuePlaying
    \/ Swipe

\* a move in flight on a board that is about to fill up
SpecDeadEnd == InitDeadEnd /\ [][NextDeadEnd]_vars

\* no direction changes the board: no empty cell and no equal neighbours
NoMoveLeft(board) == \A direction \in Directions : ~ChangesBoard(board, direction)

WinDialogOverLiveBoard == alert = "win" => ~NoMoveLeft(state.board)

-----------------------------------------------------------------------------
(* The score and the best score *)

\* the events of one session in the foreground once a move has been accepted
\* (UPDATE_SCORE is dispatched before the initial state): the callbacks of
\* the move, the win dialog with NEW_GAME, and the reset of the profile
\* screen with UPDATE_SCORE 0
NextScore ==
    \/ Render
    \/ AnimationCompletes
    \/ NextFrame
    \/ ContinuePlaying
    \/ ResetLocalBest
    \/ ResetSaved
    \/ DismissResetComplete
    \/ NewGameAfterWin
    \/ StartAfterSave

SpecScore == InitPlay /\ [][NextScore]_vars

\* C30: in every state reached through the reducer actions the application
\* dispatches, bestScore is greater than or equal to score, and no step
\* (UPDATE_SCORE and NEW_GAME among them) decreases bestScore.
C30_BestScoreBoundsScore ==
    /\ [](state.bestScore >= state.score)
    /\ [][state'.bestScore >= state.bestScore]_vars

\* a game whose score lies below a best score made earlier: UPDATE_SCORE with
\* a lower payload or NEW_GAME has acted
C30_Witness ==
    /\ state.bestScore > 0
    /\ state.score < state.bestScore

====
